---- MODULE Spec2Model ----
(***************************************************************************)
(* Model of the Newton lexer (src/src/newton_lex.rs).                      *)
(*                                                                         *)
(* A character is a one-character string, the buffer is a sequence of      *)
(* characters, offsets are 0-based as in the source (buffer[p + 1] is the  *)
(* character at offset p).  Option<T> is a sequence of length at most one: *)
(* <<>> is None and <<v>> is Some(v).  The lexer is run on ASCII sources;  *)
(* the texts given to Span::slice_and_dice also hold characters of two and *)
(* three bytes.                                                            *)
(***************************************************************************)
EXTENDS Integers, Sequences, FiniteSets, TLC

VARIABLES buffer, pos, tokens, pc, arm, start, acc, escaped, is_access,
          failure, result,
          self, string, overflow_checks, ret

vars == <<buffer, pos, tokens, pc, arm, start, acc, escaped, is_access,
          failure, result, self, string, overflow_checks, ret>>

\* the state of a call of a Span method: the span, the string argument, the
\* build's overflow checking (on in debug and test builds, off in release
\* builds) and what the call gave
spanvars == <<self, string, overflow_checks, ret>>

lexvars == <<buffer, pos, tokens, arm, start, acc, escaped, is_access,
             failure, result>>

(***************************************************************************)
(* Character classes                                                       *)
(***************************************************************************)
Lower == {"a", "b", "c", "d", "e", "f", "g", "h", "i", "j", "k", "l", "m",
          "n", "o", "p", "q", "r", "s", "t", "u", "v", "w", "x", "y", "z"}

Upper == {"A", "B", "C", "D", "E", "F", "G", "H", "I", "J", "K", "L", "M",
          "N", "O", "P", "Q", "R", "S", "T", "U", "V", "W", "X", "Y", "Z"}

Digits == {"0", "1", "2", "3", "4", "5", "6", "7", "8", "9"}

\* U+000B, written as the character itself (TLA+ strings have no escape for it)
VerticalTab == ""

\* the ASCII characters with the White_Space property: U+0009..U+000D, U+0020
Whitespace == {" ", "\t", "\n", VerticalTab, "\f", "\r"}

Quote == "\""

Backslash == "\\"

Newline == "\n"

NoChar == ""

is_whitespace(ch) == ch \in Whitespace

is_numeric(ch) == ch \in Digits

is_alphabetic(ch) == ch \in (Lower \cup Upper)

is_alphanumeric(ch) == ch \in (Lower \cup Upper \cup Digits)

IdentStart(ch) == ch \in (Lower \cup Upper \cup {"_"})

IdentChar(ch) == is_alphanumeric(ch) \/ ch = "_"

NumberChar(ch) == ch \in (Digits \cup {".", "_"})

(***************************************************************************)
(* Option, Span, Token                                                     *)
(***************************************************************************)
None == <<>>

Some(v) == <<v>>

Span(s, e) == [start |-> s, end |-> e]

Token(ty, body, span) == [ty |-> ty, body |-> body, span |-> span]

\* what a call gives: a value, or a panic with its cause
Ok(v) == [panic |-> FALSE, value |-> v]

Fail(why) == [panic |-> TRUE, value |-> why]

NoRet == [op |-> "none", out |-> Ok(<<>>)]

Type == {"Ident", "ReservedKeyword", "String", "Number", "OpenParen",
         "CloseParen", "OpenBrace", "CloseBrace", "MemberAccess", "Colon",
         "SemiColon", "Comma", "Dot", "Equal", "Greater", "Less", "Plus",
         "Minus", "Multiply", "Divide", "Modulo"}

ReservedWords == {<<"n", "e", "w">>,
                  <<"c", "o", "n", "d", "i", "t", "i", "o", "n", "s">>,
                  <<"l", "o", "g", "i", "c">>}

IdentType_Prefix(ident) ==
    IF \E w \in ReservedWords :
          Len(ident) >= Len(w) /\ SubSeq(ident, 1, Len(w)) = w
    THEN "ReservedKeyword" ELSE "Ident"

IdentType(ident) == IF ident \in ReservedWords THEN "ReservedKeyword" ELSE "Ident"

(***************************************************************************)
(* The four fatal failures (the panic messages of the source)              *)
(***************************************************************************)
UnrecognizedCharacter == "weird token"

InvalidNumberCharacter == "weird token in number"

UnterminatedString == "string was never found. he never found his buddy"

MissingSecondColon == "weird token, member access expects a second ':'"

NoFailure == "none"

(***************************************************************************)
(* Inputs: every buffer over Alphabet up to MaxLen characters, and the     *)
(* buffers of the specification's examples.                                *)
(***************************************************************************)
MaxLen == 4

\* the buffer of tests::test_lex
TestLexBuffer ==
    <<";", " ", "w", "r", "i", "t", "e", "s", Newline, ";", " ", "b", "a",
      "s", "i", "c", "a", "l", "l", "y", " ", "t", "h", "a", "t", "'", "s",
      " ", "w", "h", "a", "t", " ", "i", "t", " ", "d", "o", "e", "s",
      Newline, "\t", ";", " ", "s", "o", " ", "y", "a", Newline, ":", ":",
      "w", "r", "i", "t", "e", Newline, "n", "e", "w", " ", "s", "t", "r",
      "u", "c", "t", " ", "{", " ", "}">>

Alphabet == {"n", "e", "w", "_", "1", Quote, Backslash, "(", ":", ";",
             Newline, "%"}

Samples == {
    TestLexBuffer,
    <<":", ":", "f", "o", "o">>,
    <<";", " ", "c", "o", "m", "m", "e", "n", "t", Newline, "n", "e", "w">>,
    <<"1", "2", "3", ".", "4", "5">>,
    <<"1", "2", "3", ";">>,
    <<"1", ".", "_", ".", "2">>,
    <<Quote, "a", "b", Backslash, "n", "c", "d", Quote>>,
    <<"h", "e", "l", "l", "o">>,
    <<"l", "o", "g", "i", "c", " ", "{", " ", "}">>,
    <<"c", "o", "n", "d", "i", "t", "i", "o", "n", "s">>,
    <<"(", ")", "{", "}">>,
    <<VerticalTab>>,
    <<VerticalTab, "n", "e", "w">>,
    <<"(", VerticalTab, ")", "\t", "{", "\r", "}", "\f">>,
    <<"f", "o", "o", "(", "x", ")">>,
    <<Quote, "a", Quote, ";", "n", "e", "w">>,
    <<":", ":", "_", "f", "o", "o">>,
    <<":", " ", ":">>,
    <<"(", ":", " ", ":">>,
    <<"n", "e", "w", " ", "}", " ", "%">>,
    <<"n", "e", "w", " ", "n", "e", "w", "x", " ", "N", "e", "w", " ",
      "_", "n", "e", "w">>,
    <<"x", " ", Quote, Backslash, Quote, Quote, " ", ":", ":", "y", "1">> }

Buffers == (UNION {[1..n -> Alphabet] : n \in 0..MaxLen}) \cup Samples

(***************************************************************************)
(* Lexer::new, cur, peek                                                   *)
(***************************************************************************)
CharAt(p) == IF p >= 0 /\ p < Len(buffer) THEN buffer[p + 1] ELSE NoChar

cur == CharAt(pos)

peek == CharAt(pos + 1)

Init ==
    /\ buffer \in Buffers
    /\ pos = -1
    /\ tokens = <<>>
    /\ pc = "lexeme"
    /\ arm = "none"
    /\ start = 0
    /\ acc = <<>>
    /\ escaped = FALSE
    /\ is_access = None
    /\ failure = NoFailure
    /\ result = None
    /\ self = Span(0, 0)
    /\ string = <<>>
    /\ overflow_checks = TRUE
    /\ ret = NoRet

Panic(msg) ==
    /\ pc' = "panicked"
    /\ failure' = msg
    /\ UNCHANGED <<buffer, tokens, arm, start, acc, escaped, is_access, result>>
    /\ UNCHANGED spanvars

BackToLoop ==
    /\ pc' = "lexeme"
    /\ arm' = "none"
    /\ start' = 0
    /\ acc' = <<>>
    /\ escaped' = FALSE
    /\ is_access' = None
    /\ UNCHANGED <<buffer, failure, result>>
    /\ UNCHANGED spanvars

(***************************************************************************)
(* Lexer::lexeme: one iteration of the main loop, up to the call of a      *)
(* sub-scanner.  Every action starts with self.next().                     *)
(***************************************************************************)
LexemeExhausted ==
    /\ pc = "lexeme"
    /\ peek = NoChar
    /\ pos' = pos + 1
    /\ pc' = "returned"
    /\ result' = Some(tokens)
    /\ UNCHANGED <<buffer, tokens, arm, start, acc, escaped, is_access, failure>>
    /\ UNCHANGED spanvars

LexemeWhitespace ==
    /\ pc = "lexeme"
    /\ peek # NoChar
    /\ is_whitespace(peek)
    /\ pos' = pos + 1
    /\ UNCHANGED <<buffer, tokens, pc, arm, start, acc, escaped, is_access,
                   failure, result>>
    /\ UNCHANGED spanvars

LexemeIdentArm ==
    /\ pc = "lexeme"
    /\ IdentStart(peek)
    /\ pos' = pos + 1
    /\ pc' = "digest_ident"
    /\ arm' = "ident"
    /\ start' = pos + 1
    /\ acc' = <<>>
    /\ UNCHANGED <<buffer, tokens, escaped, is_access, failure, result>>
    /\ UNCHANGED spanvars

LexemeLiteralArm ==
    /\ pc = "lexeme"
    /\ peek = Quote
    /\ pos' = pos + 1
    /\ pc' = "digest_literal"
    /\ arm' = "literal"
    /\ start' = pos + 1
    /\ acc' = <<Quote>>
    /\ escaped' = FALSE
    /\ UNCHANGED <<buffer, tokens, is_access, failure, result>>
    /\ UNCHANGED spanvars

LexemeNumberArm ==
    /\ pc = "lexeme"
    /\ is_numeric(peek)
    /\ pos' = pos + 1
    /\ pc' = "digest_number"
    /\ arm' = "number"
    /\ start' = pos + 1
    /\ acc' = <<>>
    /\ UNCHANGED <<buffer, tokens, escaped, is_access, failure, result>>
    /\ UNCHANGED spanvars

PunctSpan(p) == Span(p, p)

LexemePunctArm(ch, ty) ==
    /\ pc = "lexeme"
    /\ peek = ch
    /\ pos' = pos + 1
    /\ tokens' = Append(tokens, Some(Token(ty, <<ch>>, PunctSpan(pos + 1))))
    /\ UNCHANGED <<buffer, pc, arm, start, acc, escaped, is_access, failure, result>>
    /\ UNCHANGED spanvars

LexemeOpenParen == LexemePunctArm("(", "OpenParen")

LexemeCloseParen == LexemePunctArm(")", "CloseParen")

LexemeOpenBrace == LexemePunctArm("{", "OpenBrace")

LexemeCloseBrace == LexemePunctArm("}", "CloseBrace")

LexemeColonArm ==
    /\ pc = "lexeme"
    /\ peek = ":"
    /\ pos' = pos + 1
    /\ pc' = "digest_access"
    /\ arm' = "colon"
    /\ UNCHANGED <<buffer, tokens, start, acc, escaped, is_access, failure, result>>
    /\ UNCHANGED spanvars

LexemeCommentArm_Token ==
    /\ pc = "lexeme"
    /\ peek = ";"
    /\ pos' = pos + 1
    /\ tokens' = Append(tokens, Some(Token("SemiColon", <<";">>, Span(pos + 1, pos + 1))))
    /\ UNCHANGED <<buffer, pc, arm, start, acc, escaped, is_access, failure, result>>
    /\ UNCHANGED spanvars

LexemeCommentArm ==
    /\ pc = "lexeme"
    /\ peek = ";"
    /\ pos' = pos + 1
    /\ pc' = "digest_comment"
    /\ arm' = "comment"
    /\ UNCHANGED <<buffer, tokens, start, acc, escaped, is_access, failure, result>>
    /\ UNCHANGED spanvars

Recognized(ch) ==
    \/ is_whitespace(ch)
    \/ IdentStart(ch)
    \/ ch = Quote
    \/ is_numeric(ch)
    \/ ch \in {"(", ")", "{", "}", ":", ";"}

LexemeWeird ==
    /\ pc = "lexeme"
    /\ peek # NoChar
    /\ ~Recognized(peek)
    /\ pos' = pos + 1
    /\ Panic(UnrecognizedCharacter)

(***************************************************************************)
(* Lexer::digest_comment                                                   *)
(***************************************************************************)
DigestCommentAdvance ==
    /\ pc = "digest_comment"
    /\ cur # NoChar
    /\ cur # Newline
    /\ pos' = pos + 1
    /\ UNCHANGED <<buffer, tokens, pc, arm, start, acc, escaped, is_access,
                   failure, result>>
    /\ UNCHANGED spanvars

DigestCommentReturn ==
    /\ pc = "digest_comment"
    /\ (cur = NoChar \/ cur = Newline)
    /\ BackToLoop
    /\ UNCHANGED <<pos, tokens>>

(***************************************************************************)
(* Lexer::digest_ident, called from the identifier arm and from the ':'    *)
(* arm; the return pushes what the calling arm pushes.                     *)
(***************************************************************************)
DigestIdentPush ==
    /\ pc = "digest_ident"
    /\ cur # NoChar
    /\ IdentChar(cur)
    /\ acc' = Append(acc, cur)
    /\ pos' = pos + 1
    /\ UNCHANGED <<buffer, tokens, pc, arm, start, escaped, is_access,
                   failure, result>>
    /\ UNCHANGED spanvars

ColonArmPush_Alone(access, access_id) ==
    IF access # None THEN <<access>> ELSE <<>>

ColonArmPush_Always(access, access_id) == <<access, access_id>>

ColonArmPush(access, access_id) ==
    IF access # None THEN <<access, access_id>> ELSE <<>>

DigestIdentReturn_StepBack ==
    /\ pc = "digest_ident"
    /\ (cur = NoChar \/ ~IdentChar(cur))
    /\ LET identifier == Some(Token(IdentType(acc), acc, Span(start, pos)))
       IN  tokens' = IF arm = "colon"
                     THEN tokens \o ColonArmPush(is_access, identifier)
                     ELSE Append(tokens, identifier)
    /\ BackToLoop
    /\ pos' = pos - 1

DigestIdentReturn ==
    /\ pc = "digest_ident"
    /\ (cur = NoChar \/ ~IdentChar(cur))
    /\ LET identifier == Some(Token(IdentType(acc), acc, Span(start, pos)))
       IN  tokens' = IF arm = "colon"
                     THEN tokens \o ColonArmPush(is_access, identifier)
                     ELSE Append(tokens, identifier)
    /\ BackToLoop
    /\ UNCHANGED pos

(***************************************************************************)
(* Lexer::digest_literal: one iteration of its loop, starting with next()  *)
(***************************************************************************)
Unescape_Verbatim(ch) == ch

Unescape(ch) == IF ch = "n" THEN Newline ELSE ch

DigestLiteralClose ==
    /\ pc = "digest_literal"
    /\ peek = Quote
    /\ escaped = FALSE
    /\ pos' = pos + 2
    /\ tokens' = Append(tokens,
                    Some(Token("String", Append(acc, Quote), Span(start, pos + 2))))
    /\ BackToLoop

DigestLiteralBackslash_NoAdvance ==
    /\ pc = "digest_literal"
    /\ peek = Backslash
    /\ escaped = FALSE
    /\ pos' = pos
    /\ escaped' = TRUE
    /\ UNCHANGED <<buffer, tokens, pc, arm, start, acc, is_access, failure, result>>
    /\ UNCHANGED spanvars

DigestLiteralBackslash ==
    /\ pc = "digest_literal"
    /\ peek = Backslash
    /\ escaped = FALSE
    /\ pos' = pos + 1
    /\ escaped' = TRUE
    /\ UNCHANGED <<buffer, tokens, pc, arm, start, acc, is_access, failure, result>>
    /\ UNCHANGED spanvars

DigestLiteralChar ==
    /\ pc = "digest_literal"
    /\ peek # NoChar
    /\ ~(peek = Quote /\ escaped = FALSE)
    /\ ~(peek = Backslash /\ escaped = FALSE)
    /\ pos' = pos + 1
    /\ acc' = Append(acc, IF escaped THEN Unescape(peek) ELSE peek)
    /\ escaped' = FALSE
    /\ UNCHANGED <<buffer, tokens, pc, arm, start, is_access, failure, result>>
    /\ UNCHANGED spanvars

DigestLiteralUnterminated_Partial ==
    /\ pc = "digest_literal"
    /\ peek = NoChar
    /\ pos' = pos + 1
    /\ tokens' = Append(tokens, Some(Token("String", acc, Span(start, pos + 1))))
    /\ BackToLoop

DigestLiteralUnterminated ==
    /\ pc = "digest_literal"
    /\ peek = NoChar
    /\ pos' = pos + 1
    /\ Panic(UnterminatedString)

(***************************************************************************)
(* Lexer::digest_number                                                    *)
(***************************************************************************)
DigestNumberPush ==
    /\ pc = "digest_number"
    /\ cur # NoChar
    /\ NumberChar(cur)
    /\ acc' = Append(acc, cur)
    /\ pos' = pos + 1
    /\ UNCHANGED <<buffer, tokens, pc, arm, start, escaped, is_access,
                   failure, result>>
    /\ UNCHANGED spanvars

DigestNumberWeird_Stop ==
    /\ pc = "digest_number"
    /\ cur # NoChar
    /\ ~NumberChar(cur)
    /\ tokens' = Append(tokens, Some(Token("Number", acc, Span(start, pos))))
    /\ BackToLoop
    /\ UNCHANGED pos

DigestNumberWeird ==
    /\ pc = "digest_number"
    /\ cur # NoChar
    /\ ~NumberChar(cur)
    /\ Panic(InvalidNumberCharacter)
    /\ UNCHANGED pos

DigestNumberReturn ==
    /\ pc = "digest_number"
    /\ cur = NoChar
    /\ tokens' = Append(tokens, Some(Token("Number", acc, Span(start, pos))))
    /\ BackToLoop
    /\ UNCHANGED pos

(***************************************************************************)
(* Lexer::digest_access, then the entry of the digest_ident call that      *)
(* follows it in the ':' arm.                                              *)
(***************************************************************************)
AccessToken_Narrow(s, e) ==
    Some(Token("MemberAccess", <<":", ":">>, Span(s, s + 1)))

AccessToken(s, e) == Some(Token("MemberAccess", <<":", ":">>, Span(s, e)))

DigestAccessMissingColon_Colon ==
    /\ pc = "digest_access"
    /\ peek # ":"
    /\ tokens' = Append(tokens, Some(Token("Colon", <<":">>, Span(pos, pos + 1))))
    /\ BackToLoop
    /\ UNCHANGED pos

DigestAccessMissingColon ==
    /\ pc = "digest_access"
    /\ peek # ":"
    /\ pos' = pos + 1
    /\ Panic(MissingSecondColon)

DigestAccessFound ==
    /\ pc = "digest_access"
    /\ peek = ":"
    /\ CharAt(pos + 2) # NoChar
    /\ is_alphabetic(CharAt(pos + 2))
    /\ pos' = pos + 2
    /\ is_access' = AccessToken(pos, pos + 2)
    /\ pc' = "digest_ident"
    /\ start' = pos + 2
    /\ acc' = <<>>
    /\ UNCHANGED <<buffer, tokens, arm, escaped, failure, result>>
    /\ UNCHANGED spanvars

DigestAccessNone ==
    /\ pc = "digest_access"
    /\ peek = ":"
    /\ ~(CharAt(pos + 2) # NoChar /\ is_alphabetic(CharAt(pos + 2)))
    /\ pos' = IF CharAt(pos + 2) # NoChar THEN pos + 2 ELSE pos + 1
    /\ is_access' = None
    /\ pc' = "digest_ident"
    /\ start' = pos'
    /\ acc' = <<>>
    /\ UNCHANGED <<buffer, tokens, arm, escaped, failure, result>>
    /\ UNCHANGED spanvars

Next ==
    \/ LexemeExhausted
    \/ LexemeWhitespace
    \/ LexemeIdentArm
    \/ LexemeLiteralArm
    \/ LexemeNumberArm
    \/ LexemeOpenParen
    \/ LexemeCloseParen
    \/ LexemeOpenBrace
    \/ LexemeCloseBrace
    \/ LexemeColonArm
    \/ LexemeCommentArm
    \/ LexemeWeird
    \/ DigestCommentAdvance
    \/ DigestCommentReturn
    \/ DigestIdentPush
    \/ DigestIdentReturn
    \/ DigestLiteralClose
    \/ DigestLiteralBackslash
    \/ DigestLiteralChar
    \/ DigestLiteralUnterminated
    \/ DigestNumberPush
    \/ DigestNumberWeird
    \/ DigestNumberReturn
    \/ DigestAccessMissingColon
    \/ DigestAccessFound
    \/ DigestAccessNone

Spec == Init /\ [][Next]_vars

\* lexeme runs on one thread and is never suspended: a step that can be
\* taken is taken
MaxLiveLen == 3

LiveInit ==
    /\ Init
    /\ (Len(buffer) <= MaxLiveLen \/ buffer \in Samples)

LiveSpec == LiveInit /\ [][Next]_vars /\ WF_vars(Next)

TypeOK ==
    /\ pos \in -1..(Len(buffer) + 1)
    /\ pc \in {"lexeme", "digest_ident", "digest_literal", "digest_number",
               "digest_comment", "digest_access", "returned", "panicked"}
(***************************************************************************)
(* Span methods.  usize is 64 bits wide: a usize amount is written          *)
(* Usize(k, n) for k * 2^64 + n, so that a wrapped difference (k = 1, n < 0) *)
(* stays distinct from every difference that did not wrap.                 *)
(***************************************************************************)
Usize(k, n) == [wraps |-> k, low |-> n]

SubtractOverflow == "attempt to subtract with overflow"

SliceOutOfBounds == "slice index out of bounds"

NotCharBoundary == "byte index is not a char boundary"

\* characters outside ASCII: U+00E9 is two bytes of UTF-8, U+20AC is three
EAcute == "é"

Euro == "€"

\* the number of bytes of a character in a String (UTF-8)
len_utf8(ch) == IF ch = EAcute THEN 2 ELSE IF ch = Euro THEN 3 ELSE 1

\* the byte offset at which the character after the first n of str starts
RECURSIVE ByteOffset(_, _)
ByteOffset(str, n) ==
    IF n = 0 THEN 0 ELSE ByteOffset(str, n - 1) + len_utf8(str[n])

\* the length of a String, in bytes
ByteLen(str) == ByteOffset(str, Len(str))

\* the byte offsets of str where a character starts, and its byte length
CharBoundaries(str) == {ByteOffset(str, n) : n \in 0..Len(str)}

is_char_boundary(str, b) == b \in CharBoundaries(str)

\* the number of characters of str that lie before the char boundary b
CharsBefore(str, b) == CHOOSE n \in 0..Len(str) : ByteOffset(str, n) = b

len(sp) ==
    IF sp.end >= sp.start THEN Ok(Usize(0, sp.end - sp.start))
    ELSE IF overflow_checks THEN Fail(SubtractOverflow)
    ELSE Ok(Usize(1, sp.end - sp.start))

is_empty(sp) ==
    IF len(sp).panic THEN len(sp) ELSE Ok(len(sp).value = Usize(0, 0))

\* string[self.start..self.end]: the offsets of the span are read as byte
\* offsets into the UTF-8 text; the index panics when the range is out of
\* bounds and when either end falls inside a character
slice_and_dice(sp, str) ==
    IF sp.start > sp.end \/ sp.end > ByteLen(str)
    THEN Fail(SliceOutOfBounds)
    ELSE IF ~is_char_boundary(str, sp.start) \/ ~is_char_boundary(str, sp.end)
    THEN Fail(NotCharBoundary)
    ELSE Ok(SubSeq(str, CharsBefore(str, sp.start) + 1,
                   CharsBefore(str, sp.end)))

perfect(sp) == Ok(sp.start <= sp.end)

backward(sp) == Ok(sp.start > sp.end)

forward_OrEqual(sp) == Ok(sp.start <= sp.end)

forward(sp) == Ok(sp.start < sp.end)

(***************************************************************************)
(* One call of a Span method on a span built by Span::new, which accepts   *)
(* any pair of offsets.                                                    *)
(***************************************************************************)
MaxOffset == 12

HelloWorld == <<"h", "e", "l", "l", "o", " ", "w", "o", "r", "l", "d">>

Texts == {<<>>, <<"a", "b", "c">>, HelloWorld,
          <<"a", EAcute>>, <<EAcute, "a">>, <<"a", Euro, "b">>,
          <<"h", EAcute, "l", "l", "o", " ", "w", "o", "r", "l", "d">>}

SpanInit ==
    /\ self \in {Span(s, e) : s \in 0..MaxOffset, e \in 0..MaxOffset}
    /\ string \in Texts
    /\ overflow_checks \in BOOLEAN
    /\ ret = NoRet
    /\ pc = "span"
    /\ buffer = <<>>
    /\ pos = -1
    /\ tokens = <<>>
    /\ arm = "none"
    /\ start = 0
    /\ acc = <<>>
    /\ escaped = FALSE
    /\ is_access = None
    /\ failure = NoFailure
    /\ result = None

Call(op, out) ==
    /\ pc = "span"
    /\ pc' = "span_done"
    /\ ret' = [op |-> op, out |-> out]
    /\ UNCHANGED <<self, string, overflow_checks>>
    /\ UNCHANGED lexvars
    /\ UNCHANGED pos

CallLen == Call("len", len(self))

CallIsEmpty == Call("is_empty", is_empty(self))

CallSliceAndDice == Call("slice_and_dice", slice_and_dice(self, string))

CallPerfect == Call("perfect", perfect(self))

CallBackward == Call("backward", backward(self))

CallForward == Call("forward", forward(self))

SpanNext ==
    \/ CallLen
    \/ CallIsEmpty
    \/ CallSliceAndDice
    \/ CallPerfect
    \/ CallBackward
    \/ CallForward

SpanSpec == SpanInit /\ [][SpanNext]_vars

(***************************************************************************)
(* Vocabulary of the properties.  These definitions read the buffer only   *)
(* and do not use the scanner's own definitions.                           *)
(***************************************************************************)
Present == {k \in DOMAIN tokens : tokens[k] # None}

Tok(k) == tokens[k][1]

Returned == pc = "returned" /\ result = Some(tokens)

Text(s, e) == SubSeq(buffer, s + 1, e)

Chars(seq) == {seq[i] : i \in DOMAIN seq}

Offsets == 0..(Len(buffer) - 1)

Letters == Lower \cup Upper

\* lexical context in which the character at offset i is read, when string
\* literals and comments are delimited as the specification describes them
RECURSIVE Ctx(_)
Ctx(i) ==
    IF i = 0 THEN "code"
    ELSE LET before == Ctx(i - 1)
             ch     == buffer[i]
         IN  CASE before = "code" ->
                    IF ch = Quote THEN "string"
                    ELSE IF ch = ";" THEN "comment" ELSE "code"
               [] before = "string" ->
                    IF ch = Quote THEN "code"
                    ELSE IF ch = Backslash THEN "escape" ELSE "string"
               [] before = "escape" -> "string"
               [] before = "comment" ->
                    IF ch = Newline THEN "code" ELSE "comment"

InComment(i) ==
    \/ Ctx(i) = "comment"
    \/ Ctx(i) = "code" /\ buffer[i + 1] = ";"

EmittedFor(t, i) ==
    /\ t.span.start <= i
    /\ (i < t.span.end \/ i = t.span.start)

\* C1: comment text never contributes a token: no token of a returned
\* sequence lies on a `;` that stands outside a string literal or on a
\* character between that `;` and the next newline.
C1_CommentNeverTokenized ==
    Returned =>
        \A k \in Present : \A i \in Offsets :
            InComment(i) => ~EmittedFor(Tok(k), i)

AllowedOutside == Letters \cup Digits \cup Whitespace \cup
                  {"_", Quote, "(", ")", "{", "}", ":", ";"}

\* C2: a character outside string literals and comments that is not
\* whitespace, a letter, an underscore, a digit, a double quote, a
\* parenthesis, a brace, `:` or `;` is fatal: no token sequence is returned
\* for a buffer that contains one.
C2_UnrecognizedIsFatal ==
    Returned =>
        \A i \in Offsets :
            Ctx(i) = "code" => buffer[i + 1] \in AllowedOutside

\* the maximal run of alphanumeric characters and underscores from offset i
RECURSIVE IdentRun(_)
IdentRun(i) ==
    IF i < Len(buffer) /\ buffer[i + 1] \in (Letters \cup Digits \cup {"_"})
    THEN <<buffer[i + 1]>> \o IdentRun(i + 1)
    ELSE <<>>

\* C3: every MemberAccess token has body `::` and is immediately followed
\* by the token of the identifier scan that starts right after the second
\* colon: Ident or ReservedKeyword, non-empty, starting where the access
\* token ends; a MemberAccess token is never last.
C3_AccessPair ==
    \A k \in Present :
        Tok(k).ty = "MemberAccess" =>
            /\ Tok(k).body = <<":", ":">>
            /\ Text(Tok(k).span.start, Tok(k).span.end) = <<":", ":">>
            /\ k < Len(tokens)
            /\ tokens[k + 1] # None
            /\ Tok(k + 1).ty \in {"Ident", "ReservedKeyword"}
            /\ Tok(k + 1).body # <<>>
            /\ Tok(k + 1).span.start = Tok(k).span.end
            /\ Tok(k + 1).body = IdentRun(Tok(k).span.end)

C3_Witness ==
    /\ Returned
    /\ \E k \in Present :
        /\ Tok(k).ty = "MemberAccess"
        /\ k > 1
\* C4: a `:` reached by the main loop that is not immediately followed by a
\* second `:` (any other character, or the end of the input) aborts the scan
\* with the missing-second-colon failure, and nothing is returned.
C4_MissingSecondColon ==
    [][/\ (pc = "lexeme" /\ CharAt(pos + 1) = ":" /\ CharAt(pos + 2) # ":")
            => (pc' = "digest_access" /\ pos' = pos + 1 /\ result' = None)
       /\ (pc = "digest_access" /\ CharAt(pos + 1) # ":")
            => (pc' = "panicked" /\ failure' = MissingSecondColon
                /\ result' = None)]_vars

C4_Witness ==
    /\ pc = "panicked"
    /\ failure = MissingSecondColon
    /\ result = None
    /\ tokens # <<>>
    /\ CharAt(pos - 1) = ":"
    /\ CharAt(pos) = " "

NumberAlphabet == Digits \cup {".", "_"}

\* C5: once a number scan has started, a character other than a digit, `.`
\* or `_` aborts the whole scan with the invalid-number-character failure; a
\* Number token exists only when the run of digits, `.` and `_` reaches the
\* end of the input, and its body is that run as it stands in the buffer.
C5_NumberScan ==
    [][/\ (pc = "lexeme" /\ CharAt(pos + 1) \in Digits)
            => (pc' = "digest_number" /\ pos' = pos + 1)
       /\ (pc = "digest_number" /\ CharAt(pos) # NoChar
                                /\ CharAt(pos) \notin NumberAlphabet)
            => (pc' = "panicked" /\ failure' = InvalidNumberCharacter
                /\ result' = None)
       /\ \A k \in DOMAIN tokens' :
            (tokens'[k] # None /\ tokens'[k][1].ty = "Number") =>
                LET t == tokens'[k][1]
                IN  /\ t.span.end = Len(buffer)
                    /\ t.span.start < t.span.end
                    /\ t.body = Text(t.span.start, t.span.end)
                    /\ Chars(t.body) \subseteq NumberAlphabet
                    /\ t.body[1] \in Digits]_vars

C5_Witness ==
    /\ Returned
    /\ \E k \in Present :
        /\ Tok(k).ty = "Number"
        /\ Cardinality({i \in DOMAIN Tok(k).body : Tok(k).body[i] = "."}) > 1
        /\ "_" \in Chars(Tok(k).body)

\* offset of the first double quote at or after offset i that is not escaped,
\* when the escape flag is esc at offset i; -1 when there is none
RECURSIVE ClosingQuote(_, _)
ClosingQuote(i, esc) ==
    IF i >= Len(buffer) THEN -1
    ELSE IF esc THEN ClosingQuote(i + 1, FALSE)
    ELSE IF buffer[i + 1] = Quote THEN i
    ELSE ClosingQuote(i + 1, buffer[i + 1] = Backslash)

\* the characters of offsets i..j-1 with the escapes resolved
RECURSIVE Decoded(_, _, _)
Decoded(i, j, esc) ==
    IF i >= j THEN <<>>
    ELSE IF esc
         THEN <<IF buffer[i + 1] = "n" THEN Newline ELSE buffer[i + 1]>>
              \o Decoded(i + 1, j, FALSE)
    ELSE IF buffer[i + 1] = Backslash THEN Decoded(i + 1, j, TRUE)
    ELSE <<buffer[i + 1]>> \o Decoded(i + 1, j, FALSE)

\* C6: the body of a String token is the opening quote, the interior with
\* the escapes resolved left to right (an unescaped backslash is dropped,
\* escaped n is a newline, any other escaped character is itself), and the
\* closing quote; the literal ends at the first quote that is not escaped.
C6_StringBody ==
    \A k \in Present :
        Tok(k).ty = "String" =>
            LET s == Tok(k).span.start
                e == Tok(k).span.end
            IN  /\ CharAt(s) = Quote
                /\ e - 1 = ClosingQuote(s + 1, FALSE)
                /\ Tok(k).body = <<Quote>> \o Decoded(s + 1, e - 1, FALSE)
                                           \o <<Quote>>

C6_Witness ==
    /\ Returned
    /\ \E k \in Present :
        /\ Tok(k).ty = "String"
        /\ Newline \in Chars(Tok(k).body)
        /\ Newline \notin Chars(buffer)

\* C7: when the input ends before an unescaped closing quote of an opened
\* string literal, the scan aborts with the unterminated-string failure and
\* nothing is returned, the tokens scanned before the string included.
C7_UnterminatedString ==
    [][(pc = "digest_literal" /\ ClosingQuote(pos + 1, escaped) = -1)
            => /\ pc' \in {"digest_literal", "panicked"}
               /\ result' = None
               /\ (pc' = "panicked" => failure' = UnterminatedString)
               /\ (CharAt(pos + 1) = NoChar => pc' = "panicked")]_vars

C7_Witness ==
    /\ pc = "panicked"
    /\ failure = UnterminatedString
    /\ result = None
    /\ tokens # <<>>
    /\ Len(acc) >= 2
    /\ acc[Len(acc)] = Quote
    /\ CharAt(Len(buffer) - 1) = Quote
    /\ CharAt(Len(buffer) - 2) = Backslash

Keywords == {<<"n", "e", "w">>,
             <<"c", "o", "n", "d", "i", "t", "i", "o", "n", "s">>,
             <<"l", "o", "g", "i", "c">>}

\* C8: the body of an Ident or ReservedKeyword token is the maximal run of
\* alphanumeric characters and underscores that begins at the token's first
\* character, and the token is ReservedKeyword exactly when that whole run
\* is `new`, `conditions` or `logic`.
C8_IdentScan ==
    \A k \in Present :
        Tok(k).ty \in {"Ident", "ReservedKeyword"} =>
            LET s == Tok(k).span.start
                e == Tok(k).span.end
            IN  /\ Tok(k).body = IdentRun(s)
                /\ Tok(k).body = Text(s, e)
                /\ Tok(k).body # <<>>
                /\ (Tok(k).ty = "ReservedKeyword") <=> (Tok(k).body \in Keywords)

C8_Witness ==
    /\ Returned
    /\ Len(tokens) = 4
    /\ \A k \in 1..4 : tokens[k] # None
    /\ Tok(1) = Token("ReservedKeyword", <<"n", "e", "w">>, Span(0, 3))
    /\ Tok(2).ty = "Ident" /\ Tok(2).body = <<"n", "e", "w", "x">>
    /\ Tok(3).ty = "Ident" /\ Tok(3).body = <<"N", "e", "w">>
    /\ Tok(4).ty = "Ident" /\ Tok(4).body = <<"_", "n", "e", "w">>

Punctuation == {"OpenParen", "CloseParen", "OpenBrace", "CloseBrace"}

\* C9: every OpenParen, CloseParen, OpenBrace and CloseBrace token has as
\* body the one character it was scanned from, and a half-open span of
\* length 1 that starts at that character's offset.
C9_PunctuationSpan ==
    \A k \in Present :
        Tok(k).ty \in Punctuation =>
            /\ Tok(k).body = <<CharAt(Tok(k).span.start)>>
            /\ Tok(k).span.end = Tok(k).span.start + 1

Produced == {"Ident", "ReservedKeyword", "String", "Number", "OpenParen",
             "CloseParen", "OpenBrace", "CloseBrace", "MemberAccess"}

\* C10: every token of a returned sequence has one of the nine kinds Ident,
\* ReservedKeyword, String, Number, OpenParen, CloseParen, OpenBrace,
\* CloseBrace, MemberAccess; the twelve other kinds of the catalog are never
\* produced.
C10_ProducedKinds ==
    result # None =>
        \A k \in DOMAIN result[1] :
            /\ result[1][k] # None
            /\ result[1][k][1].ty \in Produced
            /\ result[1][k][1].ty \in Type

C10_Witness ==
    /\ Returned
    /\ Len(tokens) >= 2
    /\ {":", ";"} \subseteq Chars(buffer)
\* the characters of str at offsets s..e-1
Substring(str, s, e) == [i \in 1..(e - s) |-> str[s + i]]

\* C11: slice_and_dice returns exactly text[start:end] (0-indexed, end
\* exclusive) whenever 0 <= start <= end <= length of the text, and is a
\* bounds error, never a clamped or truncated result, when end exceeds the
\* length of the text or start > end.  Offsets and length count characters,
\* the unit of the spans the lexer builds.
C11_SliceAndDice ==
    ret.op = "slice_and_dice" =>
        IF 0 <= self.start /\ self.start <= self.end /\ self.end <= Len(string)
        THEN /\ ~ret.out.panic
             /\ ret.out.value = Substring(string, self.start, self.end)
        ELSE ret.out.panic

\* C12: perfect() holds iff start <= end, forward() iff start < end,
\* backward() iff start > end, so backward is the negation of perfect and
\* forward and backward never both hold; whenever start <= end, len() is
\* end - start.
C12_Orientation ==
    /\ ret.op = "perfect" =>
            (~ret.out.panic /\ (ret.out.value <=> self.start <= self.end))
    /\ ret.op = "forward" =>
            (~ret.out.panic /\ (ret.out.value <=> self.start < self.end))
    /\ ret.op = "backward" =>
            (~ret.out.panic /\ (ret.out.value <=> self.start > self.end))
    /\ backward(self).value <=> ~perfect(self).value
    /\ ~(forward(self).value /\ backward(self).value)
    /\ (ret.op = "len" /\ self.start <= self.end) =>
            (~ret.out.panic /\ ret.out.value.wraps = 0
             /\ ret.out.value.low = self.end - self.start)

C12_Witness ==
    /\ ret.op = "len"
    /\ self = Span(5, 10)
    /\ ret.out.value.low = 5

\* C13: is_empty() is true exactly when start = end, for every span that can
\* be constructed: false for a one-character span and false, not an
\* arithmetic failure, for a backward span.
C13_IsEmpty ==
    ret.op = "is_empty" =>
        /\ ~ret.out.panic
        /\ ret.out.value <=> (self.start = self.end)
Kinds(seq) == [k \in DOMAIN seq |-> seq[k][1].ty]

\* C14: as tests::test_lex asserts, scanning the buffer of test_lex gives
\* exactly 5 entries, the first with body `hello`, the second with body
\* `"world`.
C14_TestLexAsserted ==
    (Returned /\ buffer = TestLexBuffer) =>
        /\ Len(result[1]) = 5
        /\ result[1][1] # None
        /\ result[1][1][1].body = <<"h", "e", "l", "l", "o">>
        /\ result[1][2] # None
        /\ result[1][2][1].body = <<Quote, "w", "o", "r", "l", "d">>

PunctuationKind(ch) ==
    CASE ch = "(" -> "OpenParen"
      [] ch = ")" -> "CloseParen"
      [] ch = "{" -> "OpenBrace"
      [] ch = "}" -> "CloseBrace"

\* the kinds of the punctuation characters of offsets i.. that stand outside
\* string literals and comments, in source order
RECURSIVE SourcePunctuation(_)
SourcePunctuation(i) ==
    IF i >= Len(buffer) THEN <<>>
    ELSE IF Ctx(i) = "code" /\ buffer[i + 1] \in {"(", ")", "{", "}"}
         THEN <<PunctuationKind(buffer[i + 1])>> \o SourcePunctuation(i + 1)
         ELSE SourcePunctuation(i + 1)

\* C15: no punctuation character is lost: in every scan that returns, the
\* `(`, `)`, `{`, `}` of the source outside string literals and comments
\* yield exactly one token of their kind each, in source order, also right
\* after an identifier, a keyword or a closing quote.
C15_NoPunctuationLost ==
    (Returned /\ \A k \in DOMAIN tokens : tokens[k] # None) =>
        SelectSeq(Kinds(tokens), LAMBDA ty : ty \in Punctuation)
            = SourcePunctuation(0)

\* C16, for a `::` at the start of the buffer followed by a character c that
\* is not alphabetic: the `::` does not fail and gives no token, and c and
\* what follows are tokenized as if the `::` were not there: `::_foo` gives
\* Ident `_foo` first, `::(` gives OpenParen first, `::1` starts a number.
C16_AccessDropIsTransparent ==
    (Len(buffer) >= 3 /\ buffer[1] = ":" /\ buffer[2] = ":"
                      /\ buffer[3] \notin Letters) =>
        /\ failure # MissingSecondColon
        /\ \A k \in Present : Tok(k).ty # "MemberAccess" \/ Tok(k).span.start # 0
        /\ (Returned /\ buffer[3] = "_") =>
                /\ tokens # <<>>
                /\ tokens[1] = Some(Token("Ident", IdentRun(2),
                                          Span(2, 2 + Len(IdentRun(2)))))
        /\ (Returned /\ buffer[3] \in {"(", ")", "{", "}"}) =>
                /\ tokens # <<>>
                /\ tokens[1] # None
                /\ Tok(1).ty = PunctuationKind(buffer[3])
                /\ Tok(1).span.start = 2
        /\ (Returned /\ buffer[3] \in Digits) =>
                /\ tokens # <<>>
                /\ tokens[1] # None
                /\ Tok(1).ty = "Number"
                /\ Tok(1).span.start = 2
Located == {"Ident", "ReservedKeyword", "Number", "MemberAccess"}

\* C17: token spans locate the token text: for every token of kind Ident,
\* ReservedKeyword, Number or MemberAccess, and every String token whose
\* literal contains no backslash, slice_and_dice of the token's span on the
\* buffer returns exactly the token's body.
C17_SpanLocatesBody ==
    \A k \in Present :
        (\/ Tok(k).ty \in Located
         \/ /\ Tok(k).ty = "String"
            /\ \A i \in Offsets :
                (Tok(k).span.start <= i /\ i < Tok(k).span.end)
                    => buffer[i + 1] # Backslash)
        => slice_and_dice(Tok(k).span, buffer) = Ok(Tok(k).body)

C17_Witness ==
    /\ Returned
    /\ \E k \in Present : Tok(k).ty = "String" /\ Len(Tok(k).body) >= 3
                          /\ Backslash \notin Chars(buffer)
    /\ \E k \in Present : Tok(k).ty = "ReservedKeyword"

Failures == {"weird token", "weird token in number",
             "string was never found. he never found his buddy",
             "weird token, member access expects a second ':'"}

SubScanners == {"digest_comment", "digest_ident", "digest_literal",
                "digest_number"}

\* C18: lexeme terminates on every buffer, in exactly one of two ways: the
\* cursor passes the end of the buffer and the accumulated sequence is
\* returned, or one of the four lexical failures aborts it; every iteration
\* of the main loop and of a sub-scanner loop moves the cursor forward by at
\* least one position.
C18_Termination ==
    /\ <>(pc \in {"returned", "panicked"})
    /\ [](pc = "returned" =>
            (pos >= Len(buffer) /\ failure = "none" /\ result = <<tokens>>))
    /\ [](pc = "panicked" => (failure \in Failures /\ result = <<>>))
    /\ [](failure # "none" => pc = "panicked")
    /\ [][/\ pc = "lexeme" => pos' >= pos + 1
          /\ (pc \in SubScanners /\ pc' = pc) => pos' >= pos + 1]_vars

C18_Witness ==
    /\ pc = "returned"
    /\ Len(tokens) >= 2
    /\ \E k \in Present : Tok(k).ty = "String"
    /\ pos = Len(buffer) + 1

\* C19: the cursor starts at -1, never decreases in any step of a scan, and
\* when lexeme returns it is exhausted: pos is at least the buffer length,
\* at most the buffer length plus one, and cur() yields no character.
C19_CursorMonotonic ==
    /\ pos = -1
    /\ [][pos' >= pos]_vars
    /\ [](pc = "returned" =>
            /\ Len(buffer) <= pos
            /\ pos <= Len(buffer) + 1
            /\ CharAt(pos) = "")

C19_Witness ==
    /\ pc = "returned"
    /\ pos = Len(buffer) + 1
    /\ Len(tokens) >= 2

\* C20: every entry of the token sequence is a present token, every span
\* satisfies 0 <= start <= end <= buffer length, and the tokens are in source
\* order without overlap: for consecutive tokens a, b, a.span.end <=
\* b.span.start.
C20_TokenOrder ==
    /\ \A k \in DOMAIN tokens : tokens[k] # <<>>
    /\ \A k \in DOMAIN tokens :
        /\ 0 <= tokens[k][1].span.start
        /\ tokens[k][1].span.start <= tokens[k][1].span.end
        /\ tokens[k][1].span.end <= Len(buffer)
    /\ \A k \in 1..(Len(tokens) - 1) :
        tokens[k][1].span.end <= tokens[k + 1][1].span.start
    /\ result # <<>> => result[1] = tokens

C20_Witness ==
    /\ Returned
    /\ Len(tokens) >= 3
    /\ \E k \in 1..(Len(tokens) - 1) :
        /\ Tok(k).ty \in Punctuation
        /\ Tok(k + 1).span.start = Tok(k).span.end + 1

====
